---------------------------- MODULE Spec2Model ----------------------------
(***************************************************************************)
(* Verification model of the DSA core of poolalloc:                        *)
(*   - the DS-node store and its union-find merge (DSNode / DSNodeHandle), *)
(*   - the Steensgaard whole-module driver (lib/DSA/Steensgaard.cpp and    *)
(*     the older copy of it at the end of lib/DSA/Basic.cpp),              *)
(*   - the call-target finder (lib/DSA/CallTargets.cpp).                   *)
(* DSNode, DSNodeHandle, DSGraph and DSCallGraph are declared outside the  *)
(* files of this development; their operations are modelled from the       *)
(* design description (sections 3 and 4 of the specification).             *)
(***************************************************************************)
EXTENDS Integers, Sequences, FiniteSets, TLC

(***************************************************************************)
(* Bounds of the model.                                                    *)
(***************************************************************************)
\* Largest node size in bytes; offsets range over 0 .. MaxSize-1.
MaxSize == 2

\* The fixpoint loop's body is entered at most MaxIter times.
MaxIter == 8

\* The number of call instructions of the module the call-target finder reads.
MaxSites == 2

Offs == 0 .. (MaxSize - 1)

Min(a, b) == IF a <= b THEN a ELSE b

Max(a, b) == IF a >= b THEN a ELSE b

(***************************************************************************)
(* DS-node store.                                                          *)
(*                                                                         *)
(* A graph is a function from node ids (1 .. n) to node records.  A handle *)
(* is a (node, offset) pair; NullH is the null handle.                      *)
(***************************************************************************)
NullH == [n |-> 0, o |-> 0]

H(node, off) == [n |-> node, o |-> off]

AllFlags == {"Incomplete", "External", "Alloca", "Heap", "Global", "Unknown", "Int2Ptr", "Ptr2Int", "Folded", "Modified", "Read", "Array"}

NoEdges == [o \in Offs |-> NullH]

NoTypes == [o \in Offs |-> {}]

\* A live, empty, unfolded node, as getNodeForValue creates it.
EmptyNode == [size |-> 0, flags |-> {}, globals |-> <<>>, edges |-> NoEdges, types |-> NoTypes, fwd |-> NullH]

\* A node with the given size, flags and globals list and no edges.
MkNode(sz, fl, gl) == [EmptyNode EXCEPT !.size = sz, !.flags = fl, !.globals = gl]

IsRep(g, n) == g[n].fwd = NullH

\* The offset a handle into representative nd reads as: 0 when folded (or when
\* the node has no size), modulo the size for an array, clamped otherwise.
ClampOff(nd, o) == IF "Folded" \in nd.flags \/ nd.size = 0 THEN 0 ELSE IF "Array" \in nd.flags THEN o % nd.size ELSE Max(0, Min(o, nd.size - 1))

RECURSIVE Normalize(_, _)
\* Follow the forwarding chain to the representative, adding up the deltas.
Normalize(g, h) == IF h = NullH THEN NullH ELSE IF IsRep(g, h.n) THEN H(h.n, ClampOff(g[h.n], h.o)) ELSE Normalize(g, H(g[h.n].fwd.n, h.o + g[h.n].fwd.o))

\* The representative node of a handle (0 for the null handle).
RepOf(g, h) == Normalize(g, h).n

SeqToSet(s) == {s[i] : i \in 1 .. Len(s)}

RECURSIVE AppendNew(_, _)
\* s followed by the elements of t not yet in it: an ordered-set union.
AppendNew(s, t) == IF t = <<>> THEN s ELSE AppendNew(IF Head(t) \in SeqToSet(s) THEN s ELSE Append(s, Head(t)), Tail(t))


(***************************************************************************)
(* merge(h1, h2): unification of two handles                                *)
(* (section 4.1 of the design description, steps 1 to 9).                   *)
(*                                                                         *)
(* The recursion of step 7 is carried by a list of pending handle pairs:   *)
(* the loser is forwarded to the representative when the pair is taken,    *)
(* and the pairs (representative's edge, loser's edge) are merged after it. *)
(***************************************************************************)
\* The non-null edges of an edge map, in offset order.
EdgeList(edges) == LET F[o \in 0 .. MaxSize] == IF o = MaxSize THEN <<>> ELSE IF edges[o] = NullH THEN F[o + 1] ELSE <<edges[o]>> \o F[o + 1] IN F[0]

\* foldNodeCompletely on a node record: size 0, type record cleared, Folded
\* set, one edge at offset 0; the other edges are to be merged with it.
FoldRec(nd) == LET es == EdgeList(nd.edges)
                   one == [o \in Offs |-> IF o = 0 /\ es # <<>> THEN es[1] ELSE NullH]
               IN [nd |-> [nd EXCEPT !.size = 0, !.flags = @ \cup {"Folded"}, !.types = NoTypes, !.edges = one],
                   prs |-> IF Len(es) < 2 THEN <<>> ELSE [i \in 1 .. (Len(es) - 1) |-> <<es[1], es[i + 1]>>]]

\* Step 8: would a type of the loser land on a different type of the
\* representative (or on a different one of its own, after the shift)?
TypeConflict(nd, stypes, delta) == \E o \in Offs : /\ stypes[o] # {}
                                                   /\ \/ nd.types[ClampOff(nd, o + delta)] \notin {{}, stypes[o]}
                                                      \/ \E o2 \in Offs : stypes[o2] \notin {{}, stypes[o]} /\ ClampOff(nd, o2 + delta) = ClampOff(nd, o + delta)

\* Step 8: the loser's type record installed at the shifted offsets.
InstallTypes(nd, stypes, delta) == [nd EXCEPT !.types = [t \in Offs |-> nd.types[t] \cup UNION {stypes[o] : o \in {x \in Offs : ClampOff(nd, x + delta) = t}}]]

RECURSIVE LinkEdgesKeepOwn(_, _, _, _, _)
\* Step 7 without its recursion: where both nodes have an edge, the
\* representative keeps its own and the loser's is dropped.
LinkEdgesKeepOwn(nd, sedges, delta, o, acc) == IF o >= MaxSize THEN [nd |-> nd, prs |-> acc] ELSE IF sedges[o] = NullH THEN LinkEdgesKeepOwn(nd, sedges, delta, o + 1, acc) ELSE LET t == ClampOff(nd, o + delta) IN IF nd.edges[t] = NullH THEN LinkEdgesKeepOwn([nd EXCEPT !.edges[t] = sedges[o]], sedges, delta, o + 1, acc) ELSE LinkEdgesKeepOwn(nd, sedges, delta, o + 1, acc)

RECURSIVE LinkEdges(_, _, _, _, _)
\* Step 7: each edge of the loser, at offset o, meets the representative's
\* edge at offset o + delta: adopted when there is none, else to be merged.
LinkEdges(nd, sedges, delta, o, acc) == IF o >= MaxSize THEN [nd |-> nd, prs |-> acc] ELSE IF sedges[o] = NullH THEN LinkEdges(nd, sedges, delta, o + 1, acc) ELSE LET t == ClampOff(nd, o + delta) IN IF nd.edges[t] = NullH THEN LinkEdges([nd EXCEPT !.edges[t] = sedges[o]], sedges, delta, o + 1, acc) ELSE LinkEdges(nd, sedges, delta, o + 1, Append(acc, <<nd.edges[t], sedges[o]>>))

\* Step 3: the larger node is the representative; on a tie, the first handle's.
ChooseRep(g, a, b) == IF g[b.n].size > g[a.n].size THEN b ELSE a

\* Step 6 with the globals lists concatenated.
UnionFactsConcat(rn, sn) == [rn EXCEPT !.flags = rn.flags \cup sn.flags, !.globals = rn.globals \o sn.globals]

\* Step 6: flags and globals of the loser united into the representative.
UnionFacts(rn, sn) == [rn EXCEPT !.flags = rn.flags \cup sn.flags, !.globals = AppendNew(rn.globals, sn.globals)]

\* The loser left as it is, without a forwarding pointer.
ForwardedNever(sn, r, delta) == sn

\* Step 9: the loser forwards to (representative, delta) and gives up its
\* edges, types, globals and flags.
Forwarded(sn, r, delta) == [EmptyNode EXCEPT !.size = sn.size, !.fwd = H(r.n, delta)]

\* Steps 3 to 9 for normalized handles a, b of two different nodes.  The
\* result is the new graph and the handle pairs still to be merged.
MergeNodes(g, a, b) == LET r == ChooseRep(g, a, b)
                           s == IF r = a THEN b ELSE a
                           delta == r.o - s.o
                           rn == g[r.n]
                           sn == g[s.n]
                           need == sn.size + delta
                           r1 == UnionFacts(rn, sn)
                           grow == need > rn.size /\ "Array" \notin r1.flags /\ "Folded" \notin r1.flags
                           r2 == IF grow /\ need <= MaxSize THEN [r1 EXCEPT !.size = need] ELSE r1
                           mustFold == "Folded" \in r1.flags \/ (grow /\ need > MaxSize) \/ TypeConflict(r2, sn.types, delta)
                           rf == IF mustFold THEN FoldRec(r2) ELSE [nd |-> InstallTypes(r2, sn.types, delta), prs |-> <<>>]
                           lk == LinkEdges(rf.nd, sn.edges, delta, 0, <<>>)
                       IN [g |-> [g EXCEPT ![r.n] = lk.nd, ![s.n] = Forwarded(sn, r, delta)], prs |-> rf.prs \o lk.prs]

\* Step 2: two offsets of one node alias: the node is folded.
FoldNode(g, n) == LET f == FoldRec(g[n]) IN [g |-> [g EXCEPT ![n] = f.nd], prs |-> f.prs]

RECURSIVE MergeAll(_, _)
\* Merge every pair of the list wl, and the pairs these merges give rise to.
MergeAll(g, wl) == IF wl = <<>> THEN g ELSE LET a == Normalize(g, wl[1][1])
                                                b == Normalize(g, wl[1][2])
                                                m == IF a.n = b.n THEN FoldNode(g, a.n) ELSE MergeNodes(g, a, b)
                                            IN IF a = NullH \/ b = NullH \/ a = b THEN MergeAll(g, Tail(wl)) ELSE MergeAll(m.g, m.prs \o Tail(wl))

\* merge(h1, h2).
Merge(g, h1, h2) == MergeAll(g, <<<<h1, h2>>>>)

(***************************************************************************)
(* State.                                                                  *)
(***************************************************************************)
VARIABLES
  module,      \* the module under analysis, with the local graphs of its functions
  graph,       \* SteensgaardDataStructures::ResultGraph (<<>> while it is 0)
  CallGraph,   \* SteensgaardDataStructures::CallGraph: call site -> callee set
  pc,          \* the position of the pass
  ci,          \* the call site the loop body is at
  iterations,  \* how often the body of the fixpoint loop was entered
  driver,      \* which copy of the pass runs
  returnNodes, \* the functions with an entry in ResultGraph's return-node map
  cmod,          \* CallTargetFinder: the module and the analysis results it reads
  pos,           \* CallTargetFinder: the call instruction findIndTargets is at
  AllSites,      \* CallTargetFinder::AllSites
  IndMap,        \* CallTargetFinder::IndMap: call site -> candidate list
  CompleteSites, \* CallTargetFinder::CompleteSites
  DirCall,       \* statistic: number of direct calls
  IndCall,       \* statistic: number of indirect calls
  CompleteInd,   \* statistic: number of complete indirect calls
  CompleteEmpty, \* statistic: number of complete empty calls
  dsg,           \* node store: a graph that handles are merged in
  pre,           \* node store: that graph before the last merge
  req,           \* node store: the handles <<h1, h2>> of the last merge
  nodes,         \* DSGraph: the ids of the nodes the graph dsg still owns
  ScalarMap,     \* DSGraph: the handles the scalar map of graph dsg holds
  preNodes,      \* DSGraph: the node ids before the last removeTriviallyDeadNodes
  swept,         \* DSGraph: removeTriviallyDeadNodes has just returned
  MergeStack,    \* merge, step by step: the calls of merge that have not returned
  MergeOrder,    \* merge, step by step: when the loser is forwarded
  assertion,     \* the assertion that stopped the process ("": none)
  lastCall,      \* the last of releaseMemory and print called on the pass object
  bmod,          \* BasicDataStructures: the module runOnModule is given
  bpc,           \* BasicDataStructures: the position of runOnModule
  bi,            \* BasicDataStructures: the global or function the loop is at
  bnodes,        \* BasicDataStructures: the nodes of the globals graph and of the function graphs
  bowner,        \* BasicDataStructures: the graph each of these nodes was created in
  bmap,          \* BasicDataStructures: the scalar maps, value -> handle
  GVNode,        \* BasicDataStructures: GVNodeInternal and GVNodeExternal
  DSInfo         \* BasicDataStructures: function -> the Node of its graph (setDSGraph)

svars == <<module, graph, CallGraph, pc, ci, iterations, driver, returnNodes>>

cvars == <<cmod, pos, AllSites, IndMap, CompleteSites, DirCall, IndCall, CompleteInd, CompleteEmpty>>

mvars == <<dsg, pre, req>>

dvars == <<nodes, ScalarMap, preNodes, swept>>

rvars == <<MergeStack, MergeOrder>>

lvars == <<assertion, lastCall>>

bvars == <<bmod, bpc, bi, bnodes, bowner, bmap, GVNode, DSInfo>>

xvars == <<dvars, rvars, lvars, bvars>>

vars == <<svars, cvars, mvars, xvars>>

\* BasicDataStructures does not run.
BIdle == bmod = <<>> /\ bpc = "idle" /\ bi = 0 /\ bnodes = <<>> /\ bowner = <<>> /\ bmap = <<>> /\ GVNode = <<>> /\ DSInfo = <<>>

\* No graph is being swept.
XIdle == nodes = {} /\ ScalarMap = {} /\ preNodes = {} /\ swept = FALSE /\ MergeStack = <<>> /\ MergeOrder = "" /\ assertion = "" /\ lastCall = "" /\ BIdle

\* No graph is under merge.
MergeIdle == dsg = <<>> /\ pre = <<>> /\ req = <<>>

\* The call-target finder before it has run.
CTFIdle == /\ pos = 0
           /\ AllSites = <<>>
           /\ IndMap = <<>>
           /\ CompleteSites = {}
           /\ DirCall = 0
           /\ IndCall = 0
           /\ CompleteInd = 0
           /\ CompleteEmpty = 0

\* The Steensgaard pass before it has run.
SteensIdle == /\ graph = <<>>
              /\ CallGraph = <<>>
              /\ returnNodes = {}
              /\ pc = "idle"
              /\ ci = 0
              /\ iterations = 0

(***************************************************************************)
(* Modules.                                                                *)
(*                                                                         *)
(* A module names its functions (in module order), which of them are only  *)
(* declared, which have internal linkage, each function's parameter count, *)
(* its formals (the scalar-map value of each parameter, 0 for a parameter  *)
(* that is no pointer), its return and vararg values (0: none), and the    *)
(* call sites of the spliced graph (DSCallSite: caller, the callee         *)
(* function of a direct call or the callee value of an indirect one, the   *)
(* return value, the vararg value, the pointer arguments, the number of    *)
(* arguments).  g0 is the union of the local graphs: node v is the node    *)
(* the local analysis bound value v to.  flows lists the pairs             *)
(* <<F, site>> where the address of F is stored into a location and the    *)
(* call target of the site is loaded from that location.                   *)
(***************************************************************************)
NoVal == 0

\* The scalar map: the handle bound to value v.
ValH(M, v) == IF v = NoVal THEN NullH ELSE M.sm[v]

Site(caller, cf, cv, ret, args, nargs) == [caller |-> caller, cf |-> cf, cv |-> cv, ret |-> ret, va |-> NoVal, args |-> args, nargs |-> nargs]

IsDirect(cs) == cs.cf # ""

\* The node a function's address is classified into.
AddrNode(f) == MkNode(0, {"Global"}, <<f>>)

StackNode == MkNode(1, {"Alloca"}, <<>>)

RECURSIVE MergeValues(_, _)
\* The local analysis' unifications: each pair of values shares a node.
MergeValues(g, prs) == IF prs = <<>> THEN g ELSE MergeValues(Merge(g, H(prs[1][1], 0), H(prs[1][2], 0)), Tail(prs))

\* test/dsa/steens/fp3.ll (and fp2.ll, which is fp3.ll without woof and bar),
\* with the callees of main's two direct calls (d1, d2) and the three function
\* pointers passed (a1, a2 by main, a3 by woof) left open; baz(i32, i8*) and
\* the declaration ext are added to the module.
\*   values: 1 call:fp   2 call:arg   3 call:cval   4 woof:fp   5 woof:arg
\*           6 woof:wval 7 main:mval  8 main:mval2  9 main:mret1 10 main:mret2
\*          11 foo:fval 12 bar:bval  13 @foo 14 @bar 15 @call 16 @woof
\*          17 main:argv 18 baz:p    19 @baz 20 @ext
FP3Module(d1, d2, a1, a2, a3) == [
    funcs |-> <<"call", "woof", "main", "foo", "bar", "baz", "ext">>,
    decl |-> {"ext"},
    internal |-> {"call", "woof", "foo", "bar", "baz"},
    arity |-> [call |-> 2, woof |-> 2, main |-> 2, foo |-> 1, bar |-> 1, baz |-> 2, ext |-> 2],
    formals |-> [call |-> <<1, 2>>, woof |-> <<4, 5>>, main |-> <<NoVal, 17>>, foo |-> <<11>>, bar |-> <<12>>, baz |-> <<NoVal, 18>>, ext |-> <<>>],
    retv |-> [call |-> 3, woof |-> 6, main |-> NoVal, foo |-> 11, bar |-> 12, baz |-> 18, ext |-> NoVal],
    vav |-> [call |-> NoVal, woof |-> NoVal, main |-> NoVal, foo |-> NoVal, bar |-> NoVal, baz |-> NoVal, ext |-> NoVal],
    sites |-> <<Site("call", "", 1, 3, <<2>>, 1), Site("woof", "", 4, 6, <<a3, 5>>, 2), Site("main", d1, NoVal, 9, <<a1, 7>>, 2), Site("main", d2, NoVal, 10, <<a2, 8>>, 2)>>,
    sm |-> [v \in 1 .. 20 |-> H(v, 0)],
    flows |-> {},
    g0 |-> [v \in 1 .. 20 |-> CASE v \in {7, 8} -> StackNode [] v = 13 -> AddrNode("foo") [] v = 14 -> AddrNode("bar") [] v = 15 -> AddrNode("call") [] v = 16 -> AddrNode("woof") [] v = 19 -> AddrNode("baz") [] v = 20 -> AddrNode("ext") [] OTHER -> EmptyNode]]

FP3Addrs == {13, 14, 15, 16, 19, 20}

FP3Modules == {FP3Module(d1, d2, a1, a2, a3) : d1 \in {"call", "woof", "baz", "ext"}, d2 \in {"call", "woof", "baz", "ext"}, a1 \in FP3Addrs, a2 \in FP3Addrs, a3 \in FP3Addrs}

\* test/dsa/steens/fp.ll, with the set st of functions stored into @FP left
\* open; bar(i8*) and two(i8*, i8*) are added to the module.
\*   values: 1 @FP  2 main:fptr  3 main:val  4 main:val2  5 foo:val  6 @foo
\*           7 bar:val  8 @bar  9 main:argv  10 @two  11 two:p  12 two:q
FPModule(st) == [
    funcs |-> <<"main", "foo", "bar", "two">>,
    decl |-> {},
    internal |-> {},
    arity |-> [main |-> 2, foo |-> 1, bar |-> 1, two |-> 2],
    formals |-> [main |-> <<NoVal, 9>>, foo |-> <<5>>, bar |-> <<7>>, two |-> <<11, 12>>],
    retv |-> [main |-> NoVal, foo |-> 5, bar |-> 7, two |-> 11],
    vav |-> [main |-> NoVal, foo |-> NoVal, bar |-> NoVal, two |-> NoVal],
    sites |-> <<Site("main", "", 2, 4, <<3>>, 1)>>,
    sm |-> [v \in 1 .. 12 |-> H(v, 0)],
    flows |-> {<<f, 1>> : f \in st},
    g0 |-> MergeValues([v \in 1 .. 12 |-> CASE v = 1 -> [MkNode(1, {"Global", "External", "Read", "Modified"}, <<"FP">>) EXCEPT !.edges[0] = H(2, 0)] [] v = 3 -> StackNode [] v = 6 -> AddrNode("foo") [] v = 8 -> AddrNode("bar") [] v = 10 -> AddrNode("two") [] OTHER -> EmptyNode],
                       (IF "foo" \in st THEN <<<<2, 6>>>> ELSE <<>>) \o (IF "bar" \in st THEN <<<<2, 8>>>> ELSE <<>>) \o (IF "two" \in st THEN <<<<2, 10>>>> ELSE <<>>))]

FPModules == {FPModule(st) : st \in SUBSET {"foo", "bar", "two"}}

\* A function pointer passed in memory: main stores the address of f into
\* field fm of a stack object and passes the address of the object's byte po
\* to run(b, arg), which loads its call target from field fc of b.
\*   values: 1 main:box  2 main:slot (what field fm holds)  3 main:val
\*           4 main:ret  5 run:b  6 run:fp  7 run:arg  8 run:r  9 foo:val
\*          10 @foo  11 two:p  12 two:q  13 @two  14 main:argv  15 main:bptr
BoxModule(f, fm, po, fc) == [
    funcs |-> <<"main", "run", "foo", "two">>,
    decl |-> {},
    internal |-> {"run", "foo", "two"},
    arity |-> [main |-> 2, run |-> 2, foo |-> 1, two |-> 2],
    formals |-> [main |-> <<NoVal, 14>>, run |-> <<5, 7>>, foo |-> <<9>>, two |-> <<11, 12>>],
    retv |-> [main |-> NoVal, run |-> 8, foo |-> 9, two |-> 11],
    vav |-> [main |-> NoVal, run |-> NoVal, foo |-> NoVal, two |-> NoVal],
    sites |-> <<Site("main", "run", NoVal, 4, <<15, 3>>, 2), Site("run", "", 6, 8, <<7>>, 1)>>,
    sm |-> [v \in 1 .. 15 |-> IF v = 15 THEN H(1, po) ELSE H(v, 0)],
    flows |-> IF fm = po + fc THEN {<<f, 2>>} ELSE {},
    g0 |-> MergeValues([v \in 1 .. 15 |-> CASE v = 1 -> [MkNode(MaxSize, {"Alloca", "Modified"}, <<>>) EXCEPT !.edges[fm] = H(2, 0)] [] v = 5 -> [MkNode(fc + 1, {"Read"}, <<>>) EXCEPT !.edges[fc] = H(6, 0)] [] v = 3 -> StackNode [] v = 10 -> AddrNode("foo") [] v = 13 -> AddrNode("two") [] OTHER -> EmptyNode],
                       <<<<2, IF f = "foo" THEN 10 ELSE 13>>>>)]

BoxModules == {BoxModule(f, fm, po, fc) : f \in {"foo", "two"}, fm \in Offs, po \in Offs, fc \in Offs}

\* fp2.ll.
\*   values: 1 call:fp  2 call:arg  3 call:cval  4 main:mval  5 main:mval2
\*           6 foo:fval  7 @foo  8 main:argv
FP2Module == [
    funcs |-> <<"call", "main", "foo">>,
    decl |-> {},
    internal |-> {"call", "foo"},
    arity |-> [call |-> 2, main |-> 2, foo |-> 1],
    formals |-> [call |-> <<1, 2>>, main |-> <<NoVal, 8>>, foo |-> <<6>>],
    retv |-> [call |-> 3, main |-> NoVal, foo |-> 6],
    vav |-> [call |-> NoVal, main |-> NoVal, foo |-> NoVal],
    sites |-> <<Site("call", "", 1, 3, <<2>>, 1), Site("main", "call", NoVal, 5, <<7, 4>>, 2)>>,
    sm |-> [v \in 1 .. 8 |-> H(v, 0)],
    flows |-> {},
    g0 |-> [v \in 1 .. 8 |-> CASE v = 4 -> StackNode [] v = 7 -> AddrNode("foo") [] OTHER -> EmptyNode]]

\* Direct recursion: f(p) calls f(p).
\*   values: 1 f:p  2 f:r (the result of the call)
\* rv is the value f returns (NoVal: no pointer), cr the pointer result of the
\* call (NoVal: none), rsz the size of the node of f:r.
RecModule(rv, cr, rsz) == [
    funcs |-> <<"f">>,
    decl |-> {},
    internal |-> {},
    arity |-> [f |-> 1],
    formals |-> [f |-> <<1>>],
    retv |-> [f |-> rv],
    vav |-> [f |-> NoVal],
    sites |-> <<Site("f", "f", NoVal, cr, <<1>>, 1)>>,
    sm |-> [v \in 1 .. 2 |-> H(v, 0)],
    flows |-> {},
    g0 |-> [v \in 1 .. 2 |-> IF v = 2 THEN MkNode(rsz, {}, <<>>) ELSE EmptyNode]]

RecModules == {RecModule(rv, cr, rsz) : rv \in {NoVal, 1, 2}, cr \in {NoVal, 2}, rsz \in {0, 1}}

\* A chain of indirect calls in one function: main calls p1(a1), p2(a2),
\* p3(a3); p1 holds @F, p(k+1) is loaded from a(k), and F's parameter x
\* points to a location that holds @F.
\*   values: 1 F:x  2 @F  3 main:p1  4 main:a1  5 main:p2  6 main:a2
\*           7 main:p3  8 main:a3
\* order gives the positions of the three call sites in the call-site list.
ChainModule(order) == [
    funcs |-> <<"main", "F">>,
    decl |-> {},
    internal |-> {"F"},
    arity |-> [main |-> 0, F |-> 1],
    formals |-> [main |-> <<>>, F |-> <<1>>],
    retv |-> [main |-> NoVal, F |-> NoVal],
    vav |-> [main |-> NoVal, F |-> NoVal],
    sites |-> [k \in 1 .. 3 |-> Site("main", "", 1 + 2 * order[k], NoVal, <<2 + 2 * order[k]>>, 1)],
    sm |-> [v \in 1 .. 8 |-> IF v = 3 THEN H(2, 0) ELSE H(v, 0)],
    flows |-> {},
    g0 |-> [v \in 1 .. 8 |-> CASE v = 1 -> [MkNode(1, {}, <<>>) EXCEPT !.edges[0] = H(2, 0)]
                                [] v = 2 -> AddrNode("F")
                                [] v \in {4, 6} -> [StackNode EXCEPT !.edges[0] = H(v + 1, 0)]
                                [] v = 8 -> StackNode
                                [] OTHER -> EmptyNode]]

ChainModules == {ChainModule(order) : order \in {<<1, 2, 3>>, <<3, 2, 1>>, <<2, 1, 3>>}}

Modules == FP3Modules \cup FPModules \cup BoxModules \cup {FP2Module} \cup RecModules \cup ChainModules

\* The two copies of the pass: Steensgaard.cpp merges a site with a callee by
\* DSGraph::mergeInGraph, the copy in Basic.cpp by ResolveFunctionCall.
Drivers == {"mergeInGraph", "ResolveFunctionCall"}

(***************************************************************************)
(* The Steensgaard driver.                                                 *)
(***************************************************************************)
Defined(M) == SeqToSet(M.funcs) \ M.decl

\* DSNode::addFullFunctionSet: the functions among the globals of node n.
FullFunctionSet(M, g, n) == IF n = 0 THEN {} ELSE SeqToSet(g[n].globals) \cap SeqToSet(M.funcs)

\* functionIsCallable(cs, F): the site passes as many arguments as F takes.
functionIsCallable(M, cs, F) == cs.nargs = M.arity[F]

\* getAllCallees without its filter: every function of the callee node.
getAllCalleesUnfiltered(M, g, cs) == IF IsDirect(cs) THEN (IF cs.cf \notin M.decl THEN {cs.cf} ELSE {}) ELSE FullFunctionSet(M, g, RepOf(g, ValH(M, cs.cv)))

\* SteensgaardDataStructures::getAllCallees.
getAllCallees(M, g, cs) == IF IsDirect(cs) THEN (IF cs.cf \notin M.decl THEN {cs.cf} ELSE {}) ELSE {F \in FullFunctionSet(M, g, RepOf(g, ValH(M, cs.cv))) : functionIsCallable(M, cs, F)}

\* buildCallGraph storing only the callees it did not know yet.
NewCallGraphDelta(M, g, CG) == [i \in 1 .. Len(M.sites) |-> getAllCallees(M, g, M.sites[i]) \ CG[i]]

\* SteensgaardDataStructures::buildCallGraph: the callee set of every site,
\* recomputed (OldCallees.swap(Callees)) ...
NewCallGraph(M, g, CG) == [i \in 1 .. Len(M.sites) |-> getAllCallees(M, g, M.sites[i])]

\* changed set whenever a site has a callee.
ChangedAnyCallee(M, g, CG) == \E i \in 1 .. Len(M.sites) : getAllCallees(M, g, M.sites[i]) # {}

\* ... and whether any of them differs from the one stored.
Changed(M, g, CG) == \E i \in 1 .. Len(M.sites) : CG[i] # getAllCallees(M, g, M.sites[i])

RECURSIVE ResolveArgsEveryFormal(_, _, _, _, _, _)
\* The argument loop with PtrArgIdx advanced for every formal, pointer or not.
ResolveArgsEveryFormal(M, g, fs, ai, args, idx) == IF ai > Len(fs) \/ idx > Len(args) THEN g ELSE ResolveArgsEveryFormal(M, IF fs[ai] # NoVal THEN Merge(g, ValH(M, fs[ai]), ValH(M, args[idx])) ELSE g, fs, ai + 1, args, idx + 1)

RECURSIVE ResolveArgs(_, _, _, _, _, _)
\* The argument loop of ResolveFunctionCall: AI runs over the formals fs,
\* PtrArgIdx over the pointer arguments of the call; a formal with an entry
\* in the scalar map is merged with the next pointer argument.
ResolveArgs(M, g, fs, ai, args, idx) == IF ai > Len(fs) \/ idx > Len(args) THEN g ELSE IF fs[ai] # NoVal THEN ResolveArgs(M, Merge(g, ValH(M, fs[ai]), ValH(M, args[idx])), fs, ai + 1, args, idx + 1) ELSE ResolveArgs(M, g, fs, ai + 1, args, idx)

\* The return values left apart.
MergeIfBothNever(M, g, v, w) == g

\* RetVal.mergeWith(Call.getRetVal()), when both have a node.
MergeIfBoth(M, g, v, w) == IF v # NoVal /\ w # NoVal THEN Merge(g, ValH(M, v), ValH(M, w)) ELSE g

\* SteensgaardDataStructures::ResolveFunctionCall.
ResolveFunctionCall(M, g, F, cs) == ResolveArgs(M, MergeIfBoth(M, MergeIfBoth(M, g, M.retv[F], cs.ret), M.vav[F], cs.va), M.formals[F], 1, cs.args, 1)

PtrFormals(M, F) == SelectSeq(M.formals[F], LAMBDA v : v # NoVal)

RECURSIVE MergePairwise(_, _, _, _, _)
\* Arguments and formals merged in order, from position k on.
MergePairwise(M, g, args, fs, k) == IF k > Len(args) \/ k > Len(fs) THEN g ELSE MergePairwise(M, Merge(g, ValH(M, args[k]), ValH(M, fs[k])), args, fs, k + 1)

RECURSIVE MergeInto(_, _, _, _, _)
\* The values of vs from position k on merged into value va (when there is one).
MergeInto(M, g, va, vs, k) == IF k > Len(vs) \/ va = NoVal THEN g ELSE MergeInto(M, Merge(g, ValH(M, va), ValH(M, vs[k])), va, vs, k + 1)

\* DSGraph::mergeInGraph(cs, F, *this, DontCloneCallNodes): return with return,
\* vararg with vararg, formals with arguments in order, the extras of either
\* side into the vararg handle of the other.
mergeInGraph(M, g, F, cs) == LET fs == PtrFormals(M, F)
                                 g1 == MergeIfBoth(M, g, cs.ret, M.retv[F])
                                 g2 == MergeIfBoth(M, g1, cs.va, M.vav[F])
                                 g3 == MergePairwise(M, g2, cs.args, fs, 1)
                                 g4 == MergeInto(M, g3, M.vav[F], cs.args, Len(fs) + 1)
                             IN MergeInto(M, g4, cs.va, fs, Len(cs.args) + 1)

\* One site merged with one callee, by the running copy of the pass.
ResolveOne(M, d, g, F, cs) == IF F \in M.decl THEN g ELSE IF d = "mergeInGraph" THEN mergeInGraph(M, g, F, cs) ELSE ResolveFunctionCall(M, g, F, cs)

RECURSIVE ResolveTargets(_, _, _, _, _, _)
\* The inner loop of the fixpoint: the callees of site cs, in set order.
ResolveTargets(M, d, g, targets, cs, k) == IF k > Len(M.funcs) THEN g ELSE ResolveTargets(M, d, IF M.funcs[k] \in targets THEN ResolveOne(M, d, g, M.funcs[k], cs) ELSE g, targets, cs, k + 1)

\* The graph runOnModuleInternal starts its loop on: the local graphs of the
\* defined functions, spliced.
SplicedGraph(M) == M.g0

SInit == /\ module \in Modules
         /\ driver \in Drivers
         /\ SteensIdle
         /\ cmod = <<>>
         /\ CTFIdle
         /\ MergeIdle
         /\ XIdle

\* runOnModuleInternal up to its loop: the result graph is allocated and the
\* local graphs are spliced into it.
RunOnModule == /\ pc = "idle"
               /\ assertion = ""
               /\ graph = <<>>
               /\ graph' = SplicedGraph(module)
               /\ returnNodes' = Defined(module)
               /\ CallGraph' = [i \in 1 .. Len(module.sites) |-> {}]
               /\ pc' = "loop"
               /\ UNCHANGED <<module, driver, ci, iterations, cvars, mvars, xvars>>

\* while (buildCallGraph()): the callee sets are rebuilt; the body is entered
\* when one of them changed.
BuildCallGraph == /\ pc = "loop"
                  /\ CallGraph' = NewCallGraph(module, graph, CallGraph)
                  /\ IF Changed(module, graph, CallGraph) THEN iterations < MaxIter /\ pc' = "body" /\ ci' = 1 /\ iterations' = iterations + 1 ELSE pc' = "exit" /\ UNCHANGED <<ci, iterations>>
                  /\ UNCHANGED <<module, driver, graph, returnNodes, cvars, mvars, xvars>>

\* One round of the outer for loop of the body: site ci is merged with each
\* of its callees.
MergeCallSite == /\ pc = "body"
                 /\ graph' = ResolveTargets(module, driver, graph, CallGraph[ci], module.sites[ci], 1)
                 /\ IF ci < Len(module.sites) THEN ci' = ci + 1 /\ pc' = "body" ELSE ci' = 0 /\ pc' = "loop"
                 /\ UNCHANGED <<module, driver, CallGraph, iterations, returnNodes, cvars, mvars, xvars>>

\* After the loop: the return nodes of internal functions are erased, and
\* the pass clears its callee sets.
Finish == /\ pc = "exit"
          /\ returnNodes' = returnNodes \ module.internal
          /\ CallGraph' = [i \in 1 .. Len(module.sites) |-> {}]
          /\ pc' = "done"
          /\ UNCHANGED <<module, driver, graph, ci, iterations, cvars, mvars, xvars>>

SNext == RunOnModule \/ BuildCallGraph \/ MergeCallSite \/ Finish

Spec == SInit /\ [][SNext]_vars

(***************************************************************************)
(* Properties of the fixpoint loop.                                        *)
(***************************************************************************)
SiteIds == 1 .. Len(module.sites)

SameNode(v, w) == RepOf(graph, ValH(module, v)) = RepOf(graph, ValH(module, w))

\* C1: when the fixpoint loop has exited, for every call site and every
\* defined function in its final callee set, the k-th pointer argument of the
\* site and the k-th pointer formal of the function are in the same node, for
\* every k both sides have.
C1_ArgsMeetFormals == pc = "exit" => \A i \in SiteIds : \A F \in CallGraph[i] \ module.decl : \A k \in 1 .. Min(Len(module.sites[i].args), Len(PtrFormals(module, F))) : SameNode(module.sites[i].args[k], PtrFormals(module, F)[k])

\* fp3.ll after the loop: bar, which call's indirect site reaches only through
\* the merges of woof's site, is a callee, and main:mval2 is in bar:bval's node.
C1_Witness == /\ pc = "exit"
              /\ module = FP3Module("call", "woof", 13, 15, 14)
              /\ CallGraph[1] = {"foo", "bar"}
              /\ iterations = 3
              /\ SameNode(8, 12)

\* The callee set of site i as the final graph gives it.
CalleesOfGraph(i) == LET cs == module.sites[i] IN IF cs.cf # "" THEN (IF cs.cf \in Defined(module) THEN {cs.cf} ELSE {}) ELSE {F \in SeqToSet(module.funcs) : F \in SeqToSet(graph[RepOf(graph, ValH(module, cs.cv))].globals) /\ cs.nargs = module.arity[F]}

\* C2 as stated: when the loop exits every stored callee set is the one the
\* final graph gives, and a function stored into a location the call target
\* is loaded from is a callee of the site.
C2_AsStated == pc = "exit" => /\ \A i \in SiteIds : CallGraph[i] = CalleesOfGraph(i)
                              /\ \A fl \in module.flows : fl[1] \in CallGraph[fl[2]]

\* C2: when the loop exits every stored callee set is the one the final graph
\* gives, and a function stored into a location the call target is loaded
\* from is a callee of the site if the site may call it (functionIsCallable).
C2_CalleesAreRecomputed == pc = "exit" => /\ \A i \in SiteIds : CallGraph[i] = CalleesOfGraph(i)
                                          /\ \A fl \in module.flows : module.sites[fl[2]].nargs = module.arity[fl[1]] => fl[1] \in CallGraph[fl[2]]

\* A function stored into a struct field in main is a callee of the site in
\* run that loads its target from that field.
C2_Witness == /\ pc = "exit"
              /\ \E fl \in module.flows : fl[1] \in CallGraph[fl[2]] /\ module.sites[fl[2]].cf = "" /\ module.sites[fl[2]].caller = "run"

\* C3: a call of buildCallGraph never takes a member out of a callee set.
C3_CalleesGrow == [][pc = "loop" => \A i \in SiteIds : CallGraph[i] \subseteq CallGraph'[i]]_vars

\* A later round found a second callee for a site.
C3_Witness == pc = "body" /\ iterations >= 2 /\ \E i \in SiteIds : Cardinality(CallGraph[i]) >= 2

\* C4: the fixpoint loop ends: whenever a call of buildCallGraph returns true,
\* the body was entered fewer than MaxIter times before, so that a call of
\* buildCallGraph returns false after at most MaxIter rounds.
C4_LoopEnds == pc = "loop" /\ Changed(module, graph, CallGraph) => iterations < MaxIter

\* The loop has ended after several rounds.
C4_Witness == pc = "exit" /\ iterations >= 3

\* The return value of site i and its j-th pointer argument share a node
\* whenever the return value and the j-th pointer formal of a callee do.
IdentityCarried(i, F) == \A j \in 1 .. Min(Len(module.sites[i].args), Len(PtrFormals(module, F))) : module.retv[F] # NoVal /\ module.sites[i].ret # NoVal /\ SameNode(module.retv[F], PtrFormals(module, F)[j]) => SameNode(module.sites[i].ret, module.sites[i].args[j])

\* C12: after the pass, a call of a function that returns its j-th pointer
\* parameter has its return value and its j-th pointer argument in one node,
\* also through a chain of calls: in fp2 main:mval, main:mval2, call:cval and
\* foo:fval share a node, in fp main:val, main:val2 and foo:val do.
C12_IdentityPropagates == /\ pc = "exit" => \A i \in SiteIds : \A F \in CallGraph[i] \ module.decl : IdentityCarried(i, F)
                          /\ pc \in {"exit", "done"} /\ module = FP2Module => SameNode(4, 6) /\ SameNode(5, 4) /\ SameNode(3, 4)
                          /\ pc \in {"exit", "done"} /\ module = FPModule({"foo"}) => SameNode(3, 5) /\ SameNode(4, 3)

C12_Witness == pc = "done" /\ module = FP2Module /\ SameNode(5, 6) /\ iterations = 2

\* The node and offset f's parameter normalizes to, in graph g.
ParamHandle(g) == Normalize(g, ValH(module, 1))

\* The loop of a directly recursive module ran its body once, and its one
\* site has f as its only callee.
OneRound == /\ module \in RecModules => iterations <= 1
            /\ module \in RecModules /\ pc = "exit" => iterations = 1 /\ CallGraph[1] = {"f"}

\* The return merge of the recursive site has nothing to unite.
NoReturnMerge == LET cs == module.sites[1] IN module.retv["f"] = NoVal \/ cs.ret = NoVal \/ module.retv["f"] = cs.ret

RECURSIVE CalleePairs(_)
\* The number of (site, callee) pairs of the first k stored callee sets.
CalleePairs(k) == IF k = 0 THEN 0 ELSE Cardinality(CallGraph[k]) + CalleePairs(k - 1)

CFuncs == <<"f", "g", "h">>

CFuncSet == SeqToSet(CFuncs)

Inst(caller, kind, target, callees, flags) == [caller |-> caller, kind |-> kind, target |-> target, callees |-> callees, flags |-> flags]

\* The call instructions a function may hold.
InstChoices(caller) == {Inst(caller, "func", t, {t}, {}) : t \in {"g", "h"}} \cup {Inst(caller, "castfunc", "h", {"h"}, {})} \cup {Inst(caller, k, "", {}, {}) : k \in {"null", "castnull", "undef", "asm"}} \cup {Inst(caller, "ind", "", cs, fl) : cs \in {{}, {"g"}, {"f", "h"}, {"f", "g"}}, fl \in {{}, {"Incomplete"}, {"External"}}}

\* The k-th call instruction of the module lies in this function.
CallerOf(k) == CFuncs[((k - 1) % Len(CFuncs)) + 1]

RECURSIVE InstSeqs(_)
\* The instruction lists of k call instructions.
InstSeqs(k) == IF k = 0 THEN {<<>>} ELSE {Append(sq, i) : sq \in InstSeqs(k - 1), i \in InstChoices(CallerOf(k))}

\* The global equivalence classes and the scalar map of the globals graph:
\* every function its own leader, or g in the class of f; the scalar map
\* holds leaders only.
GlobalMaps == {[leader |-> [x \in CFuncSet |-> x], SM |-> sm] : sm \in {{}, {"g"}, {"f", "h"}, {"f", "g", "h"}}} \cup {[leader |-> [x \in CFuncSet |-> IF x = "g" THEN "f" ELSE x], SM |-> sm] : sm \in {{"h"}, {"f", "h"}}}

\* DSCallGraph: an edge from the caller of every call instruction to each of
\* the instruction's callees.
CallEdges(insts) == UNION {{<<insts[i].caller, F>> : F \in insts[i].callees} : i \in DOMAIN insts}

RECURSIVE ReachFrom(_, _, _)
\* The functions reached from the set S in at most k of the edges E.
ReachFrom(E, S, k) == IF k = 0 THEN S ELSE ReachFrom(E, S \cup {G \in CFuncSet : \E F \in S : <<F, G>> \in E}, k - 1)

\* The strongly connected components of the call graph of insts: every
\* function's component.
SCCsOf(insts) == LET E == CallEdges(insts) R == [F \in CFuncSet |-> ReachFrom(E, {F}, Len(CFuncs))] IN [F \in CFuncSet |-> {G \in CFuncSet : G \in R[F] /\ F \in R[G]}]

\* The inputs of the finder: the call instructions, the call graph's SCCs
\* (scc), the leaders and the scalar map of the globals graph.
CModules == {[insts |-> sq, scc |-> SCCsOf(sq), leader |-> gm.leader, SM |-> gm.SM] : sq \in InstSeqs(MaxSites), gm \in GlobalMaps}

\* DSCallGraph's strongly connected component of F, ...
SCC(F) == cmod.scc[F]

\* ... its members in module order (scc_begin .. scc_end), ...
SCCMembers(F) == SelectSeq(CFuncs, LAMBDA G : G \in SCC(F))

\* ... and its leader.
sccLeader(F) == Head(SCCMembers(F))

\* SM.find(SM.getLeaderForGlobal(F)) != SM.end()
InSM(F) == cmod.leader[F] \in cmod.SM

\* cs.getCalledFunction(), and the function under pointer casts when the
\* called value is not a function itself.
CalledFunctionNoStrip(inst) == IF inst.kind = "func" THEN inst.target ELSE ""

CalledFunction(inst) == IF inst.kind \in {"func", "castfunc"} THEN inst.target ELSE ""

\* The two instructions the loop passes over: an undef called value, and
\* inline asm.
IsSkippedAsmOnly(inst) == inst.kind = "asm"

IsSkipped(inst) == inst.kind \in {"undef", "asm"}

\* isa<ConstantPointerNull>(V) of the called value under its casts.
IsNullCall(inst) == inst.kind \in {"null", "castnull"}

\* The SCC loop without its look-up in the scalar map.
PushSCCAll(list, F) == list \o SCCMembers(F)

\* One SCC loop: list, then the members of F's SCC that have an entry in the
\* scalar map of the globals graph.
PushSCC(list, F) == list \o SelectSeq(SCCMembers(F), InSM)

RECURSIVE CalleeCandidates(_, _)
\* The loop over the callees of the site.
CalleeCandidates(list, fs) == IF fs = <<>> THEN list ELSE CalleeCandidates(PushSCC(list, Head(fs)), Tail(fs))

\* What an indirect site appends to its IndMap entry: the SCCs of its callees...
CandidatesCalleesOnly(inst) == CalleeCandidates(<<>>, SelectSeq(CFuncs, LAMBDA F : F \in inst.callees))

\* ... and then the SCC of the leader of its caller.
Candidates(inst) == PushSCC(CalleeCandidates(<<>>, SelectSeq(CFuncs, LAMBDA F : F \in inst.callees)), sccLeader(inst.caller))

\* The indirect site is recorded complete.
IsCompleteIndAnySize(inst, list) == "Incomplete" \notin inst.flags /\ "External" \notin inst.flags

IsCompleteIndIgnoringExternal(inst, list) == "Incomplete" \notin inst.flags /\ Len(list) > 0

IsCompleteInd(inst, list) == "Incomplete" \notin inst.flags /\ "External" \notin inst.flags /\ Len(list) > 0

\* The indirect site is counted complete and empty.
IsCompleteEmpty(inst, list) == "Incomplete" \notin inst.flags /\ "External" \notin inst.flags /\ Len(list) = 0

\* IndMap[cs] with list appended (operator[] creates the entry).
IndMapPush(IM, cs, list) == [k \in DOMAIN IM \cup {cs} |-> IF k = cs THEN (IF cs \in DOMAIN IM THEN IM[cs] ELSE <<>>) \o list ELSE IM[k]]

\* CompleteSites.find(cs) != CompleteSites.end()
isComplete(cs) == cs \in CompleteSites

CInit == cmod \in CModules /\ pos = 1 /\ AllSites = <<>> /\ IndMap = <<>> /\ CompleteSites = {} /\ DirCall = 0 /\ IndCall = 0 /\ CompleteInd = 0 /\ CompleteEmpty = 0 /\ module = <<>> /\ driver = "" /\ SteensIdle /\ MergeIdle /\ XIdle

\* A call of undef or of inline asm: recorded in AllSites only.
VisitSkipped == /\ pos \in DOMAIN cmod.insts
                /\ IsSkipped(cmod.insts[pos])
                /\ AllSites' = Append(AllSites, pos)
                /\ pos' = pos + 1
                /\ UNCHANGED <<svars, mvars, xvars, cmod, IndMap, CompleteSites, DirCall, IndCall, CompleteInd, CompleteEmpty>>

\* A call of null.
VisitNull == /\ pos \in DOMAIN cmod.insts
             /\ ~IsSkipped(cmod.insts[pos])
             /\ CalledFunction(cmod.insts[pos]) = ""
             /\ IsNullCall(cmod.insts[pos])
             /\ AllSites' = Append(AllSites, pos)
             /\ DirCall' = DirCall + 1
             /\ CompleteSites' = CompleteSites \cup {pos}
             /\ pos' = pos + 1
             /\ UNCHANGED <<svars, mvars, xvars, cmod, IndMap, IndCall, CompleteInd, CompleteEmpty>>

\* An indirect call.
VisitIndirect == /\ pos \in DOMAIN cmod.insts
                 /\ ~IsSkipped(cmod.insts[pos])
                 /\ CalledFunction(cmod.insts[pos]) = ""
                 /\ ~IsNullCall(cmod.insts[pos])
                 /\ AllSites' = Append(AllSites, pos)
                 /\ IndCall' = IndCall + 1
                 /\ IndMap' = IndMapPush(IndMap, pos, Candidates(cmod.insts[pos]))
                 /\ CompleteSites' = IF IsCompleteInd(cmod.insts[pos], IndMap'[pos]) THEN CompleteSites \cup {pos} ELSE CompleteSites
                 /\ CompleteInd' = IF IsCompleteInd(cmod.insts[pos], IndMap'[pos]) THEN CompleteInd + 1 ELSE CompleteInd
                 /\ CompleteEmpty' = IF IsCompleteEmpty(cmod.insts[pos], IndMap'[pos]) THEN CompleteEmpty + 1 ELSE CompleteEmpty
                 /\ pos' = pos + 1
                 /\ UNCHANGED <<svars, mvars, xvars, cmod, DirCall>>

\* A direct call.
VisitDirect == /\ pos \in DOMAIN cmod.insts
               /\ ~IsSkipped(cmod.insts[pos])
               /\ CalledFunction(cmod.insts[pos]) # ""
               /\ AllSites' = Append(AllSites, pos)
               /\ DirCall' = DirCall + 1
               /\ IndMap' = IndMapPush(IndMap, pos, <<CalledFunction(cmod.insts[pos])>>)
               /\ CompleteSites' = CompleteSites \cup {pos}
               /\ pos' = pos + 1
               /\ UNCHANGED <<svars, mvars, xvars, cmod, IndCall, CompleteInd, CompleteEmpty>>

CNext == VisitSkipped \/ VisitNull \/ VisitIndirect \/ VisitDirect

SpecCTF == CInit /\ [][CNext]_vars

(***************************************************************************)
(* Properties of the call-target finder, under SpecCTF.                    *)
(***************************************************************************)
CSiteIds == DOMAIN cmod.insts

\* findIndTargets has returned.
CDone == pos > Len(cmod.insts)

IsInd(k) == cmod.insts[k].kind = "ind"

CleanNode(k) == "Incomplete" \notin cmod.insts[k].flags /\ "External" \notin cmod.insts[k].flags

\* C5: after findIndTargets, every call site whose called value is a function,
\* directly or under pointer casts, is in CompleteSites and its candidate list
\* is exactly that function.
C5_DirectComplete == CDone => \A k \in CSiteIds : cmod.insts[k].kind \in {"func", "castfunc"} => isComplete(k) /\ k \in DOMAIN IndMap /\ IndMap[k] = <<cmod.insts[k].target>>

C5_Witness == CDone /\ \E k \in CSiteIds : cmod.insts[k].kind = "castfunc" /\ cmod.insts[k].target = "h" /\ isComplete(k) /\ IndMap[k] = <<"h">> /\ ~InSM("h")

\* C6 as stated: an indirect site whose callee node is neither Incomplete nor
\* External and whose candidate list is empty is complete, and CompleteEmpty
\* counts it.
C6_AsStated == CDone => /\ \A k \in CSiteIds : IsInd(k) /\ CleanNode(k) /\ IndMap[k] = <<>> => isComplete(k)
                        /\ CompleteEmpty = Cardinality({k \in CSiteIds : IsInd(k) /\ CleanNode(k) /\ IndMap[k] = <<>>})

\* C6, amended: such a site has an empty candidate list and CompleteEmpty counts
\* it, but it is not in CompleteSites: isComplete(cs) is false.
C6_CompleteEmptyCounted == CDone => /\ \A k \in CSiteIds : IsInd(k) /\ CleanNode(k) /\ Candidates(cmod.insts[k]) = <<>> => ~isComplete(k) /\ k \in DOMAIN IndMap /\ IndMap[k] = <<>>
                                    /\ CompleteEmpty = Cardinality({k \in CSiteIds : IsInd(k) /\ CleanNode(k) /\ Candidates(cmod.insts[k]) = <<>>})

C6_Witness == CDone /\ CompleteEmpty = 1 /\ \E k \in CSiteIds : IsInd(k) /\ CleanNode(k) /\ cmod.insts[k].callees # {} /\ IndMap[k] = <<>> /\ ~isComplete(k)

\* The sites counted as direct calls when null and undef calls both are.
DirectNullUndef == {k \in CSiteIds : cmod.insts[k].kind \in {"func", "castfunc", "null", "castnull", "undef"}}

\* The sites counted as direct calls when null calls are and undef calls are not.
DirectNull == {k \in CSiteIds : cmod.insts[k].kind \in {"func", "castfunc", "null", "castnull"}}

\* C7 as stated: a call site whose called value is null or undef is counted as
\* a direct call and is in CompleteSites.
C7_AsStated == CDone => /\ \A k \in CSiteIds : cmod.insts[k].kind \in {"null", "castnull", "undef"} => isComplete(k)
                        /\ DirCall = Cardinality(DirectNullUndef)

\* C7, amended: a call of null is counted as a direct call and is in
\* CompleteSites, with no candidate list; a call of undef is recorded in
\* AllSites only: it is not counted, not complete and has no candidate list.
C7_NullDirectUndefSkipped == CDone => /\ \A k \in CSiteIds : cmod.insts[k].kind \in {"null", "castnull"} => isComplete(k) /\ k \notin DOMAIN IndMap
                                      /\ \A k \in CSiteIds : cmod.insts[k].kind = "undef" => ~isComplete(k) /\ k \notin DOMAIN IndMap /\ k \in SeqToSet(AllSites)
                                      /\ DirCall = Cardinality(DirectNull)
                                      /\ IndCall = Cardinality({k \in CSiteIds : IsInd(k)})

C7_Witness == CDone /\ DirCall = 1 /\ IndCall = 0 /\ \E k, j \in CSiteIds : cmod.insts[k].kind = "castnull" /\ isComplete(k) /\ cmod.insts[j].kind = "undef" /\ ~isComplete(j)

\* C8: an indirect site with a non-empty candidate list is in CompleteSites if
\* and only if the node of its called value is neither Incomplete nor External,
\* and no indirect site whose node is Incomplete or External is in CompleteSites.
C8_CompleteIffClean == CDone => /\ \A k \in CSiteIds : IsInd(k) /\ IndMap[k] # <<>> => (isComplete(k) <=> CleanNode(k))
                                /\ \A k \in CSiteIds : IsInd(k) /\ ~CleanNode(k) => ~isComplete(k)

C8_Witness == CDone /\ \E k, j \in CSiteIds : IsInd(k) /\ IndMap[k] # <<>> /\ isComplete(k) /\ IsInd(j) /\ IndMap[j] # <<>> /\ cmod.insts[j].flags = {"External"} /\ ~isComplete(j)

\* The functions of the SCCs of the callees of site k and of the SCC of its
\* caller.
SCCsOfSite(k) == UNION {SCC(F) : F \in cmod.insts[k].callees} \cup SCC(cmod.insts[k].caller)

\* C9: the functions listed in IndMap[cs] of an indirect site are exactly the
\* functions of the SCCs of its callees and of the SCC of its caller that have
\* an entry in the scalar map of the globals graph.
C9_CandidateSet == CDone => \A k \in CSiteIds : IsInd(k) => SeqToSet(IndMap[k]) = {F \in SCCsOfSite(k) : InSM(F)}

C9_Witness == CDone /\ \E k \in CSiteIds : IsInd(k) /\ cmod.insts[k].callees = {"g"} /\ cmod.insts[k].caller = "f" /\ SCC("g") = {"g"} /\ SeqToSet(IndMap[k]) = {"f"} /\ cmod.leader["g"] = "g"

\* How often function G occurs in list.
Count(list, G) == Cardinality({i \in DOMAIN list : list[i] = G})

\* C18 as stated: no function occurs twice in the candidate list of an
\* indirect call site.
C18_AsStated == \A k \in DOMAIN IndMap : IsInd(k) => \A G \in CFuncSet : Count(IndMap[k], G) <= 1

\* C18: in the candidate list of an indirect call site a function with an
\* entry in the scalar map of the globals graph occurs once for every callee
\* of the site whose SCC it lies in, and once more when it lies in the SCC of
\* the caller; any other function does not occur.
C18_Occurrences == \A k \in DOMAIN IndMap : IsInd(k) => \A G \in CFuncSet : Count(IndMap[k], G) = IF InSM(G) THEN Cardinality({F \in cmod.insts[k].callees : G \in SCC(F)}) + (IF G \in SCC(sccLeader(cmod.insts[k].caller)) THEN 1 ELSE 0) ELSE 0

C18_Witness == \E k \in DOMAIN IndMap : /\ IsInd(k)
                                        /\ \E G \in CFuncSet : Count(IndMap[k], G) = 3 /\ G \in SCC(cmod.insts[k].caller)
                                        /\ Cardinality(cmod.insts[k].callees) = 2

(***************************************************************************)
(* merge on its own: graphs of three nodes, and handles into them.         *)
(***************************************************************************)
\* A node with an edge and a type at offset 0 (none when the node has no size).
MkMNode(sz, fl, gl, e, ty) == [size |-> sz, flags |-> fl, globals |-> gl, edges |-> [o \in Offs |-> IF o = 0 /\ sz > 0 THEN e ELSE NullH], types |-> [o \in Offs |-> IF o = 0 /\ sz > 0 THEN ty ELSE {}], fwd |-> NullH]

\* The sizes of the three nodes (sz), with the node that the edge at offset 0
\* of each of them points to (e; 0: no edge).
MShapes == {[sz |-> <<1, 1, 1>>, e |-> <<2, 1, 0>>], [sz |-> <<MaxSize, 1, 0>>, e |-> <<3, 1, 0>>], [sz |-> <<1, MaxSize, MaxSize>>, e |-> <<1, 3, 2>>], [sz |-> <<MaxSize, MaxSize, 1>>, e |-> <<0, 0, 0>>]}

\* The flags of the three nodes, with their types at offset 0.
MKinds == {[fl |-> <<{"Heap"}, {"Global"}, {}>>, ty |-> <<{}, {}, {}>>], [fl |-> <<{"Array", "Heap"}, {"Incomplete"}, {"External"}>>, ty |-> <<{"int"}, {"int"}, {}>>], [fl |-> <<{"Heap", "Modified"}, {"Heap", "Read"}, {"Alloca"}>>, ty |-> <<{"int"}, {"ptr"}, {"int"}>>]}

\* The globals lists of the three nodes.
MGlobals == <<<<"a">>, <<"b", "a">>, <<"c">>>>

\* A handle to node n of a graph with node sizes sz: the edge of node 2 points
\* to the last byte of its target, the other edges to offset 0.
MEdge(sz, from, n) == IF n = 0 THEN NullH ELSE H(n, IF from = 2 THEN Max(sz[n], 1) - 1 ELSE 0)

\* A handle is in range when its offset lies within the node it was taken of;
\* a handle to a folded node may have been taken at any offset before the fold.
InRange(g, n, o) == o = 0 \/ o < g[n].size \/ "Folded" \in g[n].flags

\* The graphs merge is applied to: all nodes live, globals lists without
\* duplicates.
MGraphs == {[n \in 1 .. 3 |-> MkMNode(sh.sz[n], k.fl[n], MGlobals[n], MEdge(sh.sz, n, sh.e[n]), k.ty[n])] : sh \in MShapes, k \in MKinds}

MInit == dsg \in MGraphs /\ pre = dsg /\ req = <<>> /\ module = <<>> /\ driver = "" /\ SteensIdle /\ cmod = <<>> /\ CTFIdle /\ XIdle

\* merge(h1, h2) on two handles of the graph; the handles may be stale (into
\* forwarded nodes) and un-normalized, but are in range.
MergeHandles == \E n1, n2 \in DOMAIN dsg, o1, o2 \in Offs :
                  /\ InRange(dsg, n1, o1) /\ InRange(dsg, n2, o2)
                  /\ req' = <<H(n1, o1), H(n2, o2)>>
                  /\ pre' = dsg
                  /\ dsg' = Merge(dsg, H(n1, o1), H(n2, o2))
                  /\ UNCHANGED <<svars, cvars, xvars>>

MNext == MergeHandles

SpecMerge == MInit /\ [][MNext]_vars

(***************************************************************************)
(* Properties of merge, under SpecMerge.                                   *)
(***************************************************************************)
\* The two handles of the last merge as they read before it, ...
PreH1 == Normalize(pre, req[1])

PreH2 == Normalize(pre, req[2])

\* ... and the representative they have after it.
PostRep == dsg[RepOf(dsg, req[1])]

\* Both handles normalize to the same (representative, offset).
SamePair == Normalize(dsg, req[1]) = Normalize(dsg, req[2])

RECURSIVE RawOff(_, _)
\* The offset of a handle at the end of its forwarding chain, before it is
\* reduced to the representative's size.
RawOff(g, h) == IF IsRep(g, h.n) THEN h.o ELSE RawOff(g, H(g[h.n].fwd.n, h.o + g[h.n].fwd.o))

\* The handle denotes a byte of its representative: normalization reads its
\* offset as it is (or the representative is folded).
Within(g, h) == "Folded" \in g[RepOf(g, h)].flags \/ RawOff(g, h) = Normalize(g, h).o

\* The flags the two nodes had.
BothFlags == pre[PreH1.n].flags \cup pre[PreH2.n].flags

\* The flags of all the nodes the merge has united with the representative.
UnitedFlags == UNION {pre[n].flags : n \in {m \in DOMAIN pre : IsRep(pre, m) /\ RepOf(dsg, H(m, 0)) = RepOf(dsg, req[1])}}

\* The representative lists every global of both nodes, and none twice.
GlobalsUnited == /\ SeqToSet(pre[PreH1.n].globals) \cup SeqToSet(pre[PreH2.n].globals) \subseteq SeqToSet(PostRep.globals)
                 /\ Cardinality(SeqToSet(PostRep.globals)) = Len(PostRep.globals)

\* Two offsets of one node: the node is folded and both handles read offset 0.
FoldsOnAlias == PreH1.n = PreH2.n /\ PreH1.o # PreH2.o => "Folded" \in PostRep.flags /\ PostRep.size = 0 /\ Normalize(dsg, req[1]).o = 0 /\ Normalize(dsg, req[2]).o = 0

AGraphs == {g \in MGraphs : g[1].edges[0] # NullH /\ g[3].flags = (CASE g[3].size = 1 -> {"Alloca"} [] g[3].size = 0 -> {"External"} [] OTHER -> {})}

AInit == dsg \in AGraphs /\ pre = dsg /\ req = <<>> /\ module = <<>> /\ driver = "" /\ SteensIdle /\ cmod = <<>> /\ CTFIdle /\ XIdle

SpecAlgebra == AInit /\ [][MNext]_vars

\* The two graphs put the same nodes into the same equivalence classes.
SamePartition(g1, g2) == \A n, m \in DOMAIN g1 : (RepOf(g1, H(n, 0)) = RepOf(g1, H(m, 0))) <=> (RepOf(g2, H(n, 0)) = RepOf(g2, H(m, 0)))

\* The merge requests that can be made on graph g.
MergeRequests(g) == {r \in {<<H(n1, o1), H(n2, o2)>> : n1 \in DOMAIN g, n2 \in DOMAIN g, o1 \in Offs, o2 \in Offs} : InRange(g, r[1].n, r[1].o) /\ InRange(g, r[2].n, r[2].o)}

\* merge(h1, h2); merge(h1, h2) leaves the classes of one merge.
Idempotent == SamePartition(Merge(dsg, req[1], req[2]), dsg)

\* merge(h2, h1) gives the classes of merge(h1, h2).
Commutative == SamePartition(Merge(pre, req[2], req[1]), dsg)

\* Any other merge made before merge(h1, h2) or after it gives the same classes.
OrderFree == \A r \in MergeRequests(pre) : SamePartition(Merge(dsg, r[1], r[2]), Merge(Merge(pre, r[1], r[2]), req[1], req[2]))

HasReferrer(g, ns, sc, n) == \/ \E h \in sc : h.n = n
                             \/ \E m \in ns : g[m].fwd.n = n \/ \E o \in Offs : g[m].edges[o].n = n

\* The flags that keep a node.
KeepFlags == {"Global", "External", "Incomplete", "Modified", "Read", "Unknown"}

HasTypes(nd) == \E o \in Offs : nd.types[o] # {}

\* A node is dropped only when it carries no flag at all.
TriviallyDeadFlagless(g, ns, sc, n) == ~HasReferrer(g, ns, sc, n) /\ g[n].flags = {} /\ g[n].globals = <<>> /\ ~HasTypes(g[n])

\* Reference count 0, none of the keeping flags, no globals, no type record.
TriviallyDead(g, ns, sc, n) == ~HasReferrer(g, ns, sc, n) /\ g[n].flags \cap KeepFlags = {} /\ g[n].globals = <<>> /\ ~HasTypes(g[n])

RECURSIVE SweepFrom(_, _, _, _)
\* The nodes are visited in order; a dropped node gives up its handles.
SweepFrom(g, ns, sc, n) == IF n > Len(g) THEN ns ELSE SweepFrom(g, IF n \in ns /\ TriviallyDead(g, ns, sc, n) THEN ns \ {n} ELSE ns, sc, n + 1)

removeTriviallyDeadNodes(g, ns, sc) == SweepFrom(g, ns, sc, 1)

\* The flags, globals list and types at offset 0 a node of the input has.
DKinds == {[fl |-> {}, gl |-> <<>>, ty |-> {}], [fl |-> {"Alloca"}, gl |-> <<>>, ty |-> {}], [fl |-> {"Unknown"}, gl |-> <<>>, ty |-> {}], [fl |-> {}, gl |-> <<>>, ty |-> {"int"}], [fl |-> {}, gl |-> <<"a">>, ty |-> {}]}

\* The node the edge at offset 0 of each node points to (0: no edge).
DEdges == {<<2, 3, 0>>, <<0, 1, 1>>, <<1, 0, 2>>}

DGraphs == {[n \in 1 .. 3 |-> MkMNode(1, k[n].fl, k[n].gl, IF e[n] = 0 THEN NullH ELSE H(e[n], 0), k[n].ty)] : k \in [1 .. 3 -> DKinds], e \in DEdges}

DInit == /\ dsg \in DGraphs
         /\ pre = dsg
         /\ req = <<>>
         /\ nodes = DOMAIN dsg
         /\ preNodes = nodes
         /\ ScalarMap \in SUBSET {H(n, 0) : n \in DOMAIN dsg}
         /\ swept = FALSE
         /\ MergeStack = <<>> /\ MergeOrder = "" /\ assertion = "" /\ lastCall = "" /\ BIdle
         /\ module = <<>> /\ driver = "" /\ SteensIdle /\ cmod = <<>> /\ CTFIdle

\* Two values of the scalar map are unified.
MergeScalars == \E h1, h2 \in ScalarMap :
                  /\ h1 # h2
                  /\ req' = <<h1, h2>>
                  /\ pre' = dsg
                  /\ dsg' = Merge(dsg, h1, h2)
                  /\ swept' = FALSE
                  /\ UNCHANGED <<svars, cvars, rvars, lvars, bvars, nodes, preNodes, ScalarMap>>

\* A value leaves the scalar map.
EraseScalar == \E h \in ScalarMap :
                 /\ ScalarMap' = ScalarMap \ {h}
                 /\ swept' = FALSE
                 /\ UNCHANGED <<svars, cvars, mvars, rvars, lvars, bvars, nodes, preNodes>>

RemoveTriviallyDead == /\ ~swept
                       /\ preNodes' = nodes
                       /\ nodes' = removeTriviallyDeadNodes(dsg, nodes, ScalarMap)
                       /\ swept' = TRUE
                       /\ UNCHANGED <<svars, cvars, mvars, rvars, lvars, bvars, ScalarMap>>

DNext == MergeScalars \/ EraseScalar \/ RemoveTriviallyDead

SpecDead == DInit /\ [][DNext]_vars

\* C15 as stated: after removeTriviallyDeadNodes no node of the graph is
\* without incoming references and without any of the flags External, Global,
\* Incomplete, Modified, Read.
C15_AsStated == swept => \A n \in nodes : HasReferrer(dsg, nodes, ScalarMap, n) \/ dsg[n].flags \cap {"External", "Global", "Incomplete", "Modified", "Read"} # {}

\* C15: after removeTriviallyDeadNodes every node the graph still owns was
\* referred to when the operation was called, or carries one of the flags
\* Global, External, Incomplete, Modified, Read, Unknown, or has a global in
\* its list, or has a non-empty type record.
C15_DeadNodesDropped == swept => \A n \in nodes : HasReferrer(dsg, preNodes, ScalarMap, n) \/ dsg[n].flags \cap KeepFlags # {} \/ dsg[n].globals # <<>> \/ HasTypes(dsg[n])

C15_Witness == /\ swept
               /\ nodes # preNodes
               /\ \E n \in nodes : ~HasReferrer(dsg, preNodes, ScalarMap, n) /\ dsg[n].flags = {"Unknown"}
               /\ \E n \in preNodes \ nodes : dsg[n].flags = {"Alloca"}

(***************************************************************************)
(* merge, call by call.  Each call of merge is a frame of MergeStack: its  *)
(* handles, the graph it was called on, the loser s it forwards to         *)
(* (r, delta), and the handle pairs it still has to merge recursively.     *)
(* MergeOrder is "forwardFirst" when the loser is forwarded before its     *)
(* edges are merged, and "asSpecified" when it is forwarded in step 9,     *)
(* after the recursive merges of step 7.                                   *)
(***************************************************************************)
\* The recursion depth the step-by-step merge is followed to.
MaxDepth == 6

MergeOrders == {"forwardFirst", "asSpecified"}

Frame(h1, h2, g, s, r, delta, todo) == [h1 |-> h1, h2 |-> h2, g |-> g, s |-> s, r |-> r, delta |-> delta, todo |-> todo]

\* Steps 1 to 8 of merge(h1, h2) on graph g up to its recursive calls: the
\* graph they leave and the frame of the call.
Enter(g, h1, h2, order) == LET a == Normalize(g, h1)
                               b == Normalize(g, h2)
                               f == FoldNode(g, a.n)
                               m == MergeNodes(g, a, b)
                               r == ChooseRep(g, a, b)
                               s == IF r = a THEN b ELSE a
                           IN IF a = NullH \/ b = NullH \/ a = b THEN [g |-> g, fr |-> Frame(h1, h2, g, 0, NullH, 0, <<>>)]
                              ELSE IF a.n = b.n THEN [g |-> f.g, fr |-> Frame(h1, h2, g, 0, NullH, 0, f.prs)]
                              ELSE [g |-> IF order = "forwardFirst" THEN m.g ELSE [m.g EXCEPT ![s.n] = g[s.n]], fr |-> Frame(h1, h2, g, s.n, r, r.o - s.o, m.prs)]

RECURSIVE Chase(_, _, _)
\* The node reached from node n over at most k forwarding pointers.
Chase(g, n, k) == IF k = 0 \/ g[n].fwd = NullH THEN n ELSE Chase(g, g[n].fwd.n, k - 1)

\* The forwarding pointers of g form a cycle: no handle into it normalizes.
ForwardCycle(g) == \E n \in DOMAIN g : ~IsRep(g, Chase(g, n, Len(g)))

\* The representatives of graph g.
Reps(g) == {n \in DOMAIN g : IsRep(g, n)}

RInit == /\ dsg \in MGraphs
         /\ pre = dsg
         /\ req = <<>>
         /\ MergeStack = <<>>
         /\ MergeOrder \in MergeOrders
         /\ nodes = {} /\ ScalarMap = {} /\ preNodes = {} /\ swept = FALSE
         /\ assertion = "" /\ lastCall = "" /\ BIdle
         /\ module = <<>> /\ driver = "" /\ SteensIdle /\ cmod = <<>> /\ CTFIdle

\* merge(h1, h2) is called on two handles of the graph.
CallMerge == \E n1, n2 \in DOMAIN dsg, o1, o2 \in Offs :
               /\ MergeStack = <<>>
               /\ ~ForwardCycle(dsg)
               /\ Cardinality(Reps(dsg)) > 1
               /\ InRange(dsg, n1, o1) /\ InRange(dsg, n2, o2)
               /\ req' = <<H(n1, o1), H(n2, o2)>>
               /\ pre' = dsg
               /\ dsg' = Enter(dsg, H(n1, o1), H(n2, o2), MergeOrder).g
               /\ MergeStack' = <<Enter(dsg, H(n1, o1), H(n2, o2), MergeOrder).fr>>
               /\ UNCHANGED <<svars, cvars, dvars, lvars, bvars, MergeOrder>>

\* Step 7 (and the pairwise merges of a fold): the call on top of the stack
\* calls merge on its next pair of handles.
Recurse == /\ MergeStack # <<>>
           /\ MergeStack[Len(MergeStack)].todo # <<>>
           /\ Len(MergeStack) < MaxDepth
           /\ ~ForwardCycle(dsg)
           /\ LET top == MergeStack[Len(MergeStack)]
                  e == Enter(dsg, top.todo[1][1], top.todo[1][2], MergeOrder)
              IN /\ dsg' = e.g
                 /\ MergeStack' = Append([MergeStack EXCEPT ![Len(MergeStack)].todo = Tail(top.todo)], e.fr)
           /\ UNCHANGED <<svars, cvars, dvars, lvars, bvars, pre, req, MergeOrder>>

\* The call on top of the stack returns; in the specified order it now sets
\* the forwarding pointer of the loser (step 9).
Return == /\ MergeStack # <<>>
          /\ MergeStack[Len(MergeStack)].todo = <<>>
          /\ LET top == MergeStack[Len(MergeStack)]
             IN dsg' = IF MergeOrder = "asSpecified" /\ top.s # 0 THEN [dsg EXCEPT ![top.s] = Forwarded(dsg[top.s], top.r, top.delta)] ELSE dsg
          /\ MergeStack' = SubSeq(MergeStack, 1, Len(MergeStack) - 1)
          /\ UNCHANGED <<svars, cvars, dvars, lvars, bvars, pre, req, MergeOrder>>

RNext == CallMerge \/ Recurse \/ Return

SpecRec == RInit /\ [][RNext]_vars

\* No call of merge is made from within a call of merge with the same
\* handles on the same graph: such a call repeats itself forever.
NoRepeat == \A i, j \in DOMAIN MergeStack : i < j => ~(MergeStack[i].h1 = MergeStack[j].h1 /\ MergeStack[i].h2 = MergeStack[j].h2 /\ MergeStack[i].g = MergeStack[j].g)

\* C17 as stated: merge following the steps in the specified order (the
\* loser forwarded in step 9, after the recursive merges of step 7) never
\* recurses forever and never fails, on graphs with cycles either.
C17_AsStated == MergeOrder = "asSpecified" => NoRepeat /\ ~ForwardCycle(dsg)

\* C17: merge with the loser forwarded before its edges are merged never
\* repeats a call within itself and never nests deeper than MaxDepth - 1
\* calls, on graphs with cycles either, and when its last call has returned
\* the graph is the one Merge computes.
C17_MergeTerminates == MergeOrder = "forwardFirst" => /\ NoRepeat
                                                      /\ ~ForwardCycle(dsg)
                                                      /\ Len(MergeStack) < MaxDepth
                                                      /\ MergeStack = <<>> /\ req # <<>> => dsg = Merge(pre, req[1], req[2])

C17_Witness == /\ MergeOrder = "forwardFirst"
               /\ MergeStack = <<>>
               /\ req # <<>>
               /\ pre[1].edges[0] = H(1, 0)
               /\ ~IsRep(dsg, 2) /\ ~IsRep(dsg, 3)
               /\ \E n \in DOMAIN pre : pre[n].edges[0].n \notin {0, n} /\ pre[pre[n].edges[0].n].edges[0].n = n

(***************************************************************************)
(* The pass object over its life: runOnModule, releaseMemory and print,    *)
(* called one after the other.  A failed assertion stops the process.      *)
(***************************************************************************)
AlreadyAllocated == "Result graph already allocated!"

NotYetComputed == "Result graph has not yet been computed!"

LInit == SInit /\ module \in RecModules \cup {FP2Module} \cup FPModules

\* runOnModuleInternal called while ResultGraph is not 0.
RunOnModuleAllocated == /\ pc = "done"
                        /\ assertion = ""
                        /\ graph # <<>>
                        /\ assertion' = AlreadyAllocated
                        /\ UNCHANGED <<svars, cvars, mvars, dvars, rvars, bvars, lastCall>>

\* releaseMemory: delete ResultGraph; ResultGraph = 0.
ReleaseMemory == /\ pc \in {"idle", "done"}
                 /\ assertion = ""
                 /\ graph' = <<>>
                 /\ CallGraph' = <<>>
                 /\ returnNodes' = {}
                 /\ pc' = "idle"
                 /\ ci' = 0
                 /\ iterations' = 0
                 /\ lastCall' = "releaseMemory"
                 /\ UNCHANGED <<module, driver, cvars, mvars, dvars, rvars, bvars, assertion>>

\* print, with print's assert removed: the graph is written whether there
\* is one or not.
printUnchecked(g, handled) == ""

\* print: handleTest may take the call over; else ResultGraph is asserted
\* and written.  The result is the assertion that failed.
print(g, handled) == IF handled THEN "" ELSE IF g = <<>> THEN NotYetComputed ELSE ""

\* print is called; handled is what handleTest returns.  The driver with
\* ResolveFunctionCall is the copy of the pass whose print has no handleTest.
PrintGraph == \E handled \in BOOLEAN :
                /\ pc \in {"idle", "done"}
                /\ assertion = ""
                /\ handled => driver = "mergeInGraph"
                /\ assertion' = print(graph, handled)
                /\ lastCall' = IF handled THEN "print: handleTest" ELSE "print"
                /\ UNCHANGED <<svars, cvars, mvars, dvars, rvars, bvars>>

LNext == SNext \/ RunOnModuleAllocated \/ ReleaseMemory \/ PrintGraph

SpecLife == LInit /\ [][LNext]_vars

\* Whether the last call was print.
Printed == lastCall \in {"print", "print: handleTest"}

\* C19 as stated: there is a result graph exactly from runOnModule to the
\* next releaseMemory; runOnModule with a result graph trips 'Result graph
\* already allocated', print without a result graph trips 'not yet been
\* computed', and releaseMemory makes runOnModule possible again.
C19_AsStated == /\ assertion # NotYetComputed => ((graph = <<>>) <=> (pc = "idle"))
                /\ assertion = AlreadyAllocated => graph # <<>>
                /\ Printed /\ graph = <<>> => assertion = NotYetComputed

\* C19: there is a result graph exactly from runOnModule to the next
\* releaseMemory; runOnModule trips 'Result graph already allocated' only
\* with a result graph; print without a result graph trips 'not yet been
\* computed' unless handleTest takes the call over, and then trips nothing;
\* print with a result graph trips nothing.
C19_Lifecycle == /\ assertion # NotYetComputed => ((graph = <<>>) <=> (pc = "idle"))
                 /\ assertion = AlreadyAllocated => graph # <<>> /\ pc = "done"
                 /\ lastCall = "print" /\ graph = <<>> => assertion = NotYetComputed
                 /\ lastCall = "print: handleTest" /\ graph = <<>> => assertion = ""
                 /\ Printed /\ graph # <<>> => assertion \in {"", AlreadyAllocated}
                 /\ assertion = NotYetComputed => lastCall = "print" /\ graph = <<>>

\* After a run and releaseMemory, print has tripped its assertion.
C19_Witness == lastCall = "print" /\ assertion = NotYetComputed /\ graph = <<>> /\ module = FP2Module

(***************************************************************************)
(* BasicDataStructures::runOnModule: the pass without analysis             *)
(* (Basic.cpp 35-91).  The node operations it calls are those of the       *)
(* design description, sections 3.1 to 4.2; maskNodeTypes(Mask) keeps the  *)
(* flags of Mask and clears the others.                                    *)
(***************************************************************************)

\* The name of the globals graph among the graphs.
GlobalsGraph == "GlobalsGraph"

\* A global variable: a declaration, a definition of external linkage, a
\* definition of internal linkage.
BGlobalKinds == {[decl |-> TRUE, internal |-> FALSE], [decl |-> FALSE, internal |-> FALSE], [decl |-> FALSE, internal |-> TRUE]}

\* The argument lists of a function: is the k-th argument of pointer type?
BArgLists == {<<>>, <<FALSE, TRUE>>, <<TRUE, TRUE>>}

\* The number of instructions of a defined function.
BInstCounts == {0, 2}

\* A function of the module: a declaration has no instructions and no
\* internal linkage.
BFunctions(name) == {[name |-> name, decl |-> TRUE, internal |-> FALSE, args |-> <<TRUE>>, insts |-> 0]}
                      \cup {[name |-> name, decl |-> FALSE, internal |-> il, args |-> as, insts |-> ic] : il \in BOOLEAN, as \in BArgLists, ic \in BInstCounts}

\* The modules runOnModule is run on: up to two globals, two functions.
BModules == {[globals |-> gl, funcs |-> <<F1, F2>>] : gl \in {<<>>} \cup {<<k>> : k \in BGlobalKinds} \cup {<<k1, k2>> : k1, k2 \in BGlobalKinds},
                                                      F1 \in BFunctions("f"), F2 \in BFunctions("g")}

\* The values of the module: its global variables, and the arguments and
\* instructions of its functions, each with the graph whose scalar map holds it.
GlobalValue(i) == [g |-> GlobalsGraph, v |-> <<"global", i>>]

ArgValue(F, k) == [g |-> F.name, v |-> <<"arg", k>>]

InstValue(F, k) == [g |-> F.name, v |-> <<"inst", k>>]

\* The arguments of F that isa<PointerType> lets through, in order.
PointerArgs(F) == LET ks == SelectSeq([k \in 1 .. Len(F.args) |-> k], LAMBDA k : F.args[k])
                  IN [j \in 1 .. Len(ks) |-> ArgValue(F, ks[j])]

\* inst_begin(F) .. inst_end(F).
Insts(F) == [k \in 1 .. F.insts |-> InstValue(F, k)]

\* new DSNode(G): one more node, owned by graph G.
NewNode(st, G) == [st EXCEPT !.nodes = Append(@, EmptyNode), !.owner = Append(@, G)]

\* G->getNodeForValue(v): the handle bound to v, bound to a new empty node
\* if v had none.
getNodeForValue(st, G, v) == IF v \in DOMAIN st.map THEN st
                             ELSE LET a == NewNode(st, G)
                                  IN [a EXCEPT !.map = [k \in DOMAIN st.map \cup {v} |-> IF k = v THEN H(Len(a.nodes), 0) ELSE st.map[k]]]

\* G->getNodeForValue(v).mergeWith(Node).
mergeWith(st, G, v, Node) == LET a == getNodeForValue(st, G, v)
                             IN [a EXCEPT !.nodes = Merge(a.nodes, a.map[v], H(Node, 0))]

RECURSIVE mergeAllWith(_, _, _, _)
\* The loops over the arguments and the instructions of a function.
mergeAllWith(st, G, vals, Node) == IF vals = <<>> THEN st ELSE mergeAllWith(mergeWith(st, G, Head(vals), Node), G, Tail(vals), Node)

\* Node->foldNodeCompletely(), on the node that Node stands for by now.
foldNodeCompletely(g, Node) == LET f == FoldNode(g, RepOf(g, H(Node, 0))) IN MergeAll(f.g, f.prs)

\* Node->maskNodeTypes(Mask): the flags outside Mask are cleared.
maskNodeTypes(g, Node, Mask) == [g EXCEPT ![RepOf(g, H(Node, 0))].flags = @ \cap Mask]

\* Node->setExternalMarker().
setExternalMarker(g, Node) == [g EXCEPT ![RepOf(g, H(Node, 0))].flags = @ \cup {"External"}]

\* The store as one record.
BStore == [nodes |-> bnodes, owner |-> bowner, map |-> bmap]

BInit == /\ bmod \in BModules
         /\ bpc = "start" /\ bi = 0
         /\ bnodes = <<>> /\ bowner = <<>> /\ bmap = <<>> /\ GVNode = <<>> /\ DSInfo = <<>>
         /\ nodes = {} /\ ScalarMap = {} /\ preNodes = {} /\ swept = FALSE
         /\ MergeStack = <<>> /\ MergeOrder = "" /\ assertion = "" /\ lastCall = ""
         /\ module = <<>> /\ driver = "" /\ SteensIdle /\ cmod = <<>> /\ CTFIdle /\ MergeIdle

\* Lines 42-43: the two nodes of the globals.
BasicBegin == /\ bpc = "start"
              /\ bnodes' = <<EmptyNode, EmptyNode>>
              /\ bowner' = <<GlobalsGraph, GlobalsGraph>>
              /\ GVNode' = [Internal |-> 1, External |-> 2]
              /\ bpc' = "globals" /\ bi' = 1
              /\ UNCHANGED <<bmod, bmap, DSInfo, svars, cvars, mvars, dvars, rvars, lvars>>

\* Lines 44-51: one global variable.
MergeGlobal == /\ bpc = "globals" /\ bi \in DOMAIN bmod.globals
               /\ LET I == bmod.globals[bi]
                      st == mergeWith(BStore, GlobalsGraph, GlobalValue(bi), IF I.decl \/ ~I.internal THEN GVNode.External ELSE GVNode.Internal)
                  IN bnodes' = st.nodes /\ bowner' = st.owner /\ bmap' = st.map
               /\ bi' = bi + 1
               /\ UNCHANGED <<bmod, bpc, GVNode, DSInfo, svars, cvars, mvars, dvars, rvars, lvars>>

\* Lines 53-61: the two nodes are folded, the internal one masked, the
\* external one marked; formGlobalECs adds and merges no node.
FoldGlobals == /\ bpc = "globals" /\ bi > Len(bmod.globals)
               /\ bnodes' = setExternalMarker(foldNodeCompletely(maskNodeTypes(foldNodeCompletely(bnodes, GVNode.Internal), GVNode.Internal, {"Incomplete"}), GVNode.External), GVNode.External)
               /\ bpc' = "functions" /\ bi' = 1
               /\ UNCHANGED <<bmod, bowner, bmap, GVNode, DSInfo, svars, cvars, mvars, dvars, rvars, lvars>>

\* Line 64: a declaration gets no graph.
SkipDeclaration == /\ bpc = "functions" /\ bi \in DOMAIN bmod.funcs /\ bmod.funcs[bi].decl
                   /\ bi' = bi + 1
                   /\ UNCHANGED <<bmod, bpc, bnodes, bowner, bmap, GVNode, DSInfo, svars, cvars, mvars, dvars, rvars, lvars>>

\* Lines 65-86: the graph of a defined function.
BuildFunctionGraph == /\ bpc = "functions" /\ bi \in DOMAIN bmod.funcs /\ ~bmod.funcs[bi].decl
                      /\ LET F == bmod.funcs[bi]
                             G == F.name
                             s0 == NewNode(BStore, G)
                             Node == Len(s0.nodes)
                             s1 == IF ~F.internal THEN [s0 EXCEPT !.nodes = setExternalMarker(@, Node)] ELSE s0
                             s2 == mergeAllWith(s1, G, PointerArgs(F), Node)
                             s3 == mergeAllWith(s2, G, Insts(F), Node)
                         IN /\ bnodes' = maskNodeTypes(foldNodeCompletely(s3.nodes, Node), Node, {"Incomplete"})
                            /\ bowner' = s3.owner /\ bmap' = s3.map
                            /\ DSInfo' = [k \in DOMAIN DSInfo \cup {G} |-> IF k = G THEN Node ELSE DSInfo[k]]
                      /\ bi' = bi + 1
                      /\ UNCHANGED <<bmod, bpc, GVNode, svars, cvars, mvars, dvars, rvars, lvars>>

\* Line 90.
BasicReturn == /\ bpc = "functions" /\ bi > Len(bmod.funcs)
               /\ bpc' = "done"
               /\ UNCHANGED <<bmod, bi, bnodes, bowner, bmap, GVNode, DSInfo, svars, cvars, mvars, dvars, rvars, lvars>>

BNext == BasicBegin \/ MergeGlobal \/ FoldGlobals \/ SkipDeclaration \/ BuildFunctionGraph \/ BasicReturn

SpecBasic == BInit /\ [][BNext]_vars

\* The node a value of a scalar map stands for.
NodeOfValue(v) == RepOf(bnodes, bmap[v])

\* The node a DSNode pointer stands for.
NodeOf(Node) == RepOf(bnodes, H(Node, 0))

isNodeCompletelyFolded(n) == "Folded" \in bnodes[n].flags

\* The functions of the module that are no declarations.
BDefined == {bmod.funcs[k] : k \in {j \in DOMAIN bmod.funcs : ~bmod.funcs[j].decl}}

\* The pointer arguments and the instructions of F.
ValuesOf(F) == SeqToSet(PointerArgs(F)) \cup SeqToSet(Insts(F))

\* All values of F stand for the Node of its graph.
OneNodePerFunction == \A F \in BDefined : F.name \in DOMAIN DSInfo /\ \A v \in ValuesOf(F) : v \in DOMAIN bmap /\ NodeOfValue(v) = NodeOf(DSInfo[F.name])

\* The globals stand for the two nodes of the globals graph, by linkage.
TwoGlobalNodes == /\ NodeOf(GVNode.Internal) # NodeOf(GVNode.External)
                  /\ bowner[NodeOf(GVNode.Internal)] = GlobalsGraph /\ bowner[NodeOf(GVNode.External)] = GlobalsGraph
                  /\ "External" \in bnodes[NodeOf(GVNode.External)].flags
                  /\ \A i \in DOMAIN bmod.globals : /\ GlobalValue(i) \in DOMAIN bmap
                                                    /\ NodeOfValue(GlobalValue(i)) = NodeOf(IF bmod.globals[i].decl \/ ~bmod.globals[i].internal THEN GVNode.External ELSE GVNode.Internal)

\* No two functions have values on one node.
NoSharing == \A F1, F2 \in BDefined : F1 # F2 => \A v1 \in ValuesOf(F1), v2 \in ValuesOf(F2) : NodeOfValue(v1) # NodeOfValue(v2)

\* C20: after BasicDataStructures::runOnModule, the pointer arguments and the
\* instructions of every defined function stand for one folded node, every
\* global variable stands for one of two folded nodes of the globals graph
\* (the one of the declarations and non-internal globals marked External, the
\* other that of the defined internal globals), and no two functions have
\* values on one node.
C20_AsStated == bpc = "done" => /\ OneNodePerFunction
                                /\ \A F \in BDefined : isNodeCompletelyFolded(NodeOf(DSInfo[F.name]))
                                /\ TwoGlobalNodes
                                /\ isNodeCompletelyFolded(NodeOf(GVNode.Internal)) /\ isNodeCompletelyFolded(NodeOf(GVNode.External))
                                /\ NoSharing
====
